---- MODULE Spec2Model ----
(***************************************************************************)
(* Model of pesto_server.py: the twisted line protocol (TurboProtocol),    *)
(* the command threads (CommandRunner), the disk registry (disks, Disk)    *)
(* and the client registry (clients), with the three module-level locks.   *)
(*                                                                         *)
(* Text is modelled as sequences of one-character strings, so that strip,  *)
(* startswith, split and lower are computed as Python computes them.       *)
(* "CR" stands for the carriage return character and "TAB" for a tab.      *)
(***************************************************************************)
EXTENDS Integers, Sequences, FiniteSets, TLC

(* ---- bounds of the model ---- *)
MaxConns == 2      \* connections accepted
MaxUnits == 2      \* command lines dispatched
MaxArrivals == 3   \* connections, command and exit lines, inventory edits and termination requests together
MaxScan == 2       \* devices lsblk reports at startup
MaxWin == 1        \* lines of a wmic listing

(* ---- values ---- *)
None == "None"
Free == <<"free">>
Reactor == <<"reactor">>
Unit(u) == <<"unit", u>>
AbsentKey == <<"$absent">>
NullVal == <<"$null">>

PING == <<"p","i","n","g">>
PONG == <<"p","o","n","g">>
ERROR == <<"e","r","r","o","r">>
EXIT == <<"e","x","i","t">>
SMARTCTL == <<"s","m","a","r","t","c","t","l">>
GET_DISKS == <<"g","e","t","_","d","i","s","k","s">>
GET_DISKS_WIN == <<"g","e","t","_","d","i","s","k","s","_","w","i","n">>
MANUAL == <<"error_that_can_be_manually_fixed">>
WD == <<"W","D","-">>

PathA == <<"/","a">>
PathB == <<"/","b">>
SerialA == <<"A">>
SerialWDA == <<"W","D","-","A">>

(* ---- str methods used by the server ---- *)
Whitespace == {" ", "CR", "TAB"}

RECURSIVE LStrip(_)
LStrip(s) ==
    IF s # <<>> /\ Head(s) \in Whitespace THEN LStrip(Tail(s)) ELSE s

RECURSIVE RStrip(_)
RStrip(s) ==
    IF s # <<>> /\ s[Len(s)] \in Whitespace
    THEN RStrip(SubSeq(s, 1, Len(s) - 1))
    ELSE s

Strip(s) == RStrip(LStrip(s))

StartsWith(s, p) == Len(s) >= Len(p) /\ SubSeq(s, 1, Len(p)) = p

LowerChar(ch) ==
    CASE ch = "P" -> "p"
      [] ch = "I" -> "i"
      [] ch = "N" -> "n"
      [] ch = "G" -> "g"
      [] ch = "E" -> "e"
      [] ch = "X" -> "x"
      [] ch = "T" -> "t"
      [] ch = "F" -> "f"
      [] OTHER -> ch

Lower(s) == [i \in 1..Len(s) |-> LowerChar(s[i])]

SpaceAt(s) ==
    IF \E i \in 1..Len(s) : s[i] = " "
    THEN CHOOSE i \in 1..Len(s) : s[i] = " " /\ \A j \in 1..(i - 1) : s[j] # " "
    ELSE 0

(* line.split(' ', 1), then parts[0].lower() and parts[1] or '' *)
SplitCmd(line) ==
    IF SpaceAt(line) = 0 THEN Lower(line)
    ELSE Lower(SubSeq(line, 1, SpaceAt(line) - 1))

SplitArgs(line) ==
    IF SpaceAt(line) = 0 THEN <<>>
    ELSE SubSeq(line, SpaceAt(line) + 1, Len(line))

EndsWithCR(text) == text # <<>> /\ text[Len(text)] = "CR"

(* ---- the inventory collaborator (pytarallo), as the server uses it ---- *)
CodeList == <<"AB12", "CD34">>
Codes == {CodeList[i] : i \in 1..Len(CodeList)}
NoItem == [sn |-> AbsentKey, smart |-> None]

Inventories ==
    { [c \in Codes |-> NoItem],
      [c \in Codes |-> IF c = "AB12" THEN [sn |-> SerialA, smart |-> None] ELSE NoItem],
      [c \in Codes |-> [sn |-> SerialA, smart |-> None]] }

(* tarallo.get_codes_by_feature("sn", value): the codes whose feature matches *)
GetCodesByFeature(inventory, value) ==
    SelectSeq(CodeList, LAMBDA c : inventory[c].sn = value)

(* tarallo.update_item_features(code, {"smart-data": status}) *)
UpdateItemFeatures(inventory, code, status) ==
    [inventory EXCEPT ![code].smart = status]

(* ---- Disk ---- *)
Truthy(code) == code \notin {None, ""}

IsText(v) == v # AbsentKey /\ v # NullVal

Normalize(sn) == IF StartsWith(sn, WD) THEN SubSeq(sn, 4, Len(sn)) ELSE sn

(* Whether Disk._get_code reaches the call of get_codes_by_feature. *)
NeedsLookup(d, tar) == tar /\ IsText(d.lsblk.serial)

(* mutant of Disk._get_code: with several matches the first one is taken *)
GetCodeFirstMatch(d, tar, inventory, stop_on_error, answered) ==
    LET sn == Normalize(d.lsblk.serial)
        codes == GetCodesByFeature(inventory, sn)
        da == [d EXCEPT !.asked = Append(@, [query |-> sn,
                                             codes |-> IF answered THEN codes ELSE <<>>,
                                             answered |-> answered])]
    IN  IF ~tar THEN [disk |-> [d EXCEPT !.code = None], exc |-> "ok"]
        ELSE IF d.lsblk.serial = AbsentKey
        THEN [disk |-> [d EXCEPT !.code = None],
              exc |-> IF stop_on_error THEN "manual" ELSE "fault"]
        ELSE IF d.lsblk.serial = NullVal
        THEN [disk |-> d, exc |-> "fault"]
        ELSE IF ~answered
        THEN [disk |-> da, exc |-> "fault"]
        ELSE IF Len(codes) <= 0
        THEN [disk |-> [da EXCEPT !.code = None], exc |-> "ok"]
        ELSE [disk |-> [da EXCEPT !.code = codes[1]], exc |-> "ok"]

(* Disk._get_code: the disk after the call and how the call ended ("ok", a
   raised ErrorThatCanBeManuallyFixed "manual", or another exception
   "fault"). answered: the inventory call returned instead of raising.
   The field asked is history: the get_codes_by_feature calls made for this
   Disk object, each with the value queried and the codes returned. *)
GetCode(d, tar, inventory, stop_on_error, answered) ==
    LET sn == Normalize(d.lsblk.serial)
        codes == GetCodesByFeature(inventory, sn)
        da == [d EXCEPT !.asked = Append(@, [query |-> sn,
                                             codes |-> IF answered THEN codes ELSE <<>>,
                                             answered |-> answered])]
    IN  IF ~tar THEN [disk |-> [d EXCEPT !.code = None], exc |-> "ok"]
        ELSE IF d.lsblk.serial = AbsentKey
        THEN [disk |-> [d EXCEPT !.code = None],
              exc |-> IF stop_on_error THEN "manual" ELSE "fault"]
        ELSE IF d.lsblk.serial = NullVal
        THEN [disk |-> d, exc |-> "fault"]
        ELSE IF ~answered
        THEN [disk |-> da, exc |-> "fault"]
        ELSE IF Len(codes) <= 0
        THEN [disk |-> [da EXCEPT !.code = None], exc |-> "ok"]
        ELSE IF Len(codes) = 1
        THEN [disk |-> [da EXCEPT !.code = codes[1]], exc |-> "ok"]
        ELSE [disk |-> [da EXCEPT !.code = None],
              exc |-> IF stop_on_error THEN "manual" ELSE "ok"]

(* Whether Disk._get_item reaches the call of get_item. *)
NeedsItem(d, tar) == tar /\ Truthy(d.code)

(* Disk._get_item *)
GetItem(d, tar, answered) ==
    IF NeedsItem(d, tar)
    THEN IF answered THEN [disk |-> [d EXCEPT !.item = d.code], exc |-> "ok"]
         ELSE [disk |-> d, exc |-> "fault"]
    ELSE [disk |-> [d EXCEPT !.item = None], exc |-> "ok"]

(* Disk.__init__ *)
NewDisk(lsblk, tar, inventory, codeAnswered, itemAnswered) ==
    LET d0 == [lsblk |-> lsblk, code |-> None, item |-> None, asked |-> <<>>]
        r1 == GetCode(d0, tar, inventory, FALSE, codeAnswered)
        r2 == GetItem(r1.disk, tar, itemAnswered)
    IN  IF lsblk.path = AbsentKey THEN [disk |-> d0, exc |-> "fault"]
        ELSE IF r1.exc # "ok" THEN r1
        ELSE r2

(* Disk.serialize_disk: the code is stored in the lsblk dict itself, and that
   same dict is what is returned *)
SerializeDisk(d) == [d EXCEPT !.lsblk.code = d.code]

(* ---- the disks dict, in insertion order ---- *)
HasPath(dd, p) == \E i \in 1..Len(dd) : dd[i].path = p
IndexOf(dd, p) == CHOOSE i \in 1..Len(dd) : dd[i].path = p
DiskAt(dd, p) == dd[IndexOf(dd, p)].disk
PutDisk(dd, p, d) ==
    IF HasPath(dd, p) THEN [dd EXCEPT ![IndexOf(dd, p)].disk = d]
    ELSE Append(dd, [path |-> p, disk |-> d])
Keys(dd) == [i \in 1..Len(dd) |-> dd[i].path]

(* ---- what lsblk can report for one device ---- *)
Paths == {PathA, PathB}
LsblkEntries ==
    { [path |-> PathA, serial |-> SerialWDA, code |-> "NoKey"],
      [path |-> PathA, serial |-> AbsentKey, code |-> "NoKey"],
      [path |-> PathB, serial |-> SerialA, code |-> "NoKey"],
      [path |-> PathB, serial |-> NullVal, code |-> "NoKey"],
      [path |-> AbsentKey, serial |-> SerialA, code |-> "NoKey"] }

RECURSIVE SeqsUpTo(_, _)
SeqsUpTo(S, n) ==
    IF n = 0 THEN {<<>>}
    ELSE SeqsUpTo(S, n - 1) \cup
         {Append(s, x) : s \in {t \in SeqsUpTo(S, n - 1) : Len(t) = n - 1}, x \in S}

\* lsblk lists a device once, and the devices in the order of their names
PathRank(p) == CASE p = PathA -> 1 [] p = PathB -> 2 [] OTHER -> 3
DistinctPaths(s) ==
    \A i \in 1..Len(s), j \in 1..Len(s) : i < j => PathRank(s[i].path) < PathRank(s[j].path)

(* ---- state ---- *)
VARIABLES
    phase,                  \* main(): "scanning", "running", "stopping", "exited", "aborted"
    tarallo,                \* TARALLO is set
    inv,                    \* the inventory's items
    toScan,                 \* lsblk output that scan_for_disks has still to visit
    disks,                  \* disks
    disks_lock,             \* disks_lock (RLock): owner and depth
    conn_id,                \* factory.conn_id
    conns,                  \* the TurboProtocol objects, by _id
    clients,                \* clients (its keys)
    clients_lock,           \* clients_lock: owner
    running_commands,       \* running_commands
    running_commands_lock,  \* running_commands_lock: owner
    units,                  \* the CommandRunner objects, in creation order
    reactor,                \* the reactor thread: the handler it is in
    calls,                  \* calls queued by reactor.callFromThread
    main,                   \* main()'s finally loop: what it is doing, and the thread it joins
    edits,                  \* history: edits made to the inventory by its other users
    skipped                 \* history: the paths scan_for_disks skipped after an exception

vars ==
    <<phase, tarallo, inv, toScan, disks, disks_lock, conn_id, conns, clients,
      clients_lock, running_commands, running_commands_lock, units, reactor,
      calls, main, edits, skipped>>

Idle == [pc |-> "idle", conn |-> 0, unit |-> 0]
Unlocked == [owner |-> Free, depth |-> 0]

Init ==
    /\ phase = "scanning"
    /\ tarallo \in BOOLEAN
    /\ inv \in Inventories
    /\ ~tarallo => inv = [c \in Codes |-> NoItem]
    /\ toScan \in {s \in SeqsUpTo(LsblkEntries, MaxScan) : DistinctPaths(s)}
    /\ disks = <<>>
    /\ disks_lock = Unlocked
    /\ conn_id = 0
    /\ conns = <<>>
    /\ clients = {}
    /\ clients_lock = Free
    /\ running_commands = {}
    /\ running_commands_lock = Free
    /\ units = <<>>
    /\ reactor = Idle
    /\ calls = <<>>
    /\ main = [pc |-> "run", unit |-> 0]
    /\ edits = 0
    /\ skipped = {}

(* ---- startup: scan_for_disks, one device per step ---- *)
ScanDisk ==
    /\ phase = "scanning"
    /\ toScan # <<>>
    /\ LET disk == Head(toScan) IN
       IF disk.path = AbsentKey
       THEN \* the warning concatenates a str and a dict: TypeError, outside the try
            /\ phase' = "aborted"
            /\ UNCHANGED <<toScan, disks, skipped>>
       ELSE \E codeAnswered \in BOOLEAN, itemAnswered \in BOOLEAN :
              LET r == NewDisk(disk, tarallo, inv, codeAnswered, itemAnswered) IN
                /\ disks' = IF r.exc = "ok" THEN PutDisk(disks, disk.path, r.disk)
                            ELSE disks
                /\ skipped' = IF r.exc = "ok" THEN skipped \ {disk.path}
                              ELSE skipped \cup {disk.path}
                /\ toScan' = Tail(toScan)
                /\ UNCHANGED phase
    /\ UNCHANGED <<tarallo, inv, disks_lock, conn_id, conns, clients, clients_lock,
                   running_commands, running_commands_lock, units, reactor, calls, main, edits>>

(* main(): the scan is over, listenTCP and reactor.run() *)
StartListening ==
    /\ phase = "scanning"
    /\ toScan = <<>>
    /\ phase' = "running"
    /\ UNCHANGED <<tarallo, inv, toScan, disks, disks_lock, conn_id, conns, clients,
                   clients_lock, running_commands, running_commands_lock, units,
                   reactor, calls, main, edits, skipped>>

(* ---- what a client can send as one line (the newline already removed) ---- *)
Sp == <<" ">>
Cr == <<"CR">>
Lines ==
    { [ok |-> TRUE, text |-> PING],
      [ok |-> TRUE, text |-> <<"P","I","N","G">> \o Cr],
      [ok |-> TRUE, text |-> GET_DISKS],
      [ok |-> TRUE, text |-> GET_DISKS_WIN],
      [ok |-> TRUE, text |-> SMARTCTL \o Sp \o PathA],
      [ok |-> TRUE, text |-> EXIT],
      [ok |-> TRUE, text |-> Sp \o EXIT \o <<"n">> \o Cr],
      [ok |-> TRUE, text |-> <<"E","X","I","T">> \o Sp \o <<"x">>],
      [ok |-> FALSE, text |-> <<"xFF">> \o Cr] }

Conn(c) == conns[c + 1]

\* what has arrived from outside so far
Arrivals ==
    conn_id + Len(units) + edits + (IF phase \in {"scanning", "running"} THEN 0 ELSE 1)
    + Cardinality({k \in 1..Len(conns) : conns[k].sawExit})
ConnIds == 0..(conn_id - 1)

(* TurboProtocol.__init__. History: out is what was passed to the transport;
   first is how the first line received ended and decoded how the first line
   received that is valid UTF-8 ended; sawExit tells that one of ExitTexts
   was received *)
NewProtocol(id) ==
    [id |-> id, status |-> "open", delimiter |-> "LF", delimiter_found |-> FALSE,
     out |-> <<>>, first |-> "none", decoded |-> "none", sawExit |-> FALSE]

\* the texts of Lines that, trimmed, begin with exit
ExitTexts == {EXIT, Sp \o EXIT \o <<"n">> \o Cr}

Ending(text) == IF EndsWithCR(text) THEN "CRLF" ELSE "LF"

\* the history of a protocol object after a line
Seen(p, line) ==
    [p EXCEPT !.first = IF @ = "none" THEN Ending(line.text) ELSE @,
              !.decoded = IF @ = "none" /\ line.ok THEN Ending(line.text) ELSE @,
              !.sawExit = @ \/ (line.ok /\ line.text \in ExitTexts)]

\* mutant: the "if not self._delimiter_found" guard is lost
DetectDelimiterEveryLine(p, text) ==
    [p EXCEPT !.delimiter = IF Len(text) > 0 /\ text[Len(text)] = "CR" THEN "CRLF" ELSE @,
              !.delimiter_found = TRUE]

\* lineReceived: "if not self._delimiter_found: ..."
DetectDelimiter(p, text) ==
    IF p.delimiter_found THEN p
    ELSE [p EXCEPT !.delimiter = IF Len(text) > 0 /\ text[Len(text)] = "CR"
                                 THEN "CRLF" ELSE @,
                   !.delimiter_found = TRUE]

\* mutant: startswith is asked of the line before strip()
IsExitNoStrip(text) == StartsWith(text, EXIT)

\* lineReceived: line = line.strip(); line.startswith('exit')
IsExit(text) == StartsWith(Strip(text), EXIT)

NoParam == [kind |-> "none"]
NoResp == [cmd |-> <<>>, param |-> NoParam]

(* CommandRunner.__init__, and the locals of the thread's calls. sent, dropped
   and faulted are history: the calls this thread handed to the reactor, the
   messages it dropped for a closed connection, whether run() caught an
   exception *)
NewRunner(cmd, args, the_id) ==
    [cmd |-> cmd, args |-> args, the_id |-> the_id, pc |-> "new",
     resp |-> NoResp, sent |-> 0, dropped |-> 0, faulted |-> FALSE,
     todo |-> <<>>, result |-> <<>>, cur |-> <<>>, caller |-> "none",
     status |-> None]

(* ---- the command threads: pure parts ---- *)
WinLabels == <<"C:", "D:">>
WinSizes == <<"100", "200">>

\* get_smartctl_status
GetSmartctlStatus == "old"

\* mutant: the ping branch does not overwrite cmd
ExecCommandPingEcho(r) ==
    CASE r.cmd = SMARTCTL -> [r EXCEPT !.pc = "smart_ext"]
      [] r.cmd = GET_DISKS -> [r EXCEPT !.pc = "gd_lock"]
      [] r.cmd = GET_DISKS_WIN -> [r EXCEPT !.pc = "win_ext"]
      [] r.cmd = PING -> [r EXCEPT !.resp = [cmd |-> r.cmd, param |-> NoParam],
                                   !.pc = "send_lock"]
      [] OTHER -> [r EXCEPT !.resp = [cmd |-> ERROR,
                                      param |-> [kind |-> "error",
                                                 message |-> "Unrecognized command",
                                                 command |-> r.cmd]],
                            !.pc = "send_lock"]

\* mutant: in the else branch cmd = "error" is moved above the line that
\* builds param
ExecCommandSwapped(r) ==
    CASE r.cmd = SMARTCTL -> [r EXCEPT !.pc = "smart_ext"]
      [] r.cmd = GET_DISKS -> [r EXCEPT !.pc = "gd_lock"]
      [] r.cmd = GET_DISKS_WIN -> [r EXCEPT !.pc = "win_ext"]
      [] r.cmd = PING -> [r EXCEPT !.resp = [cmd |-> PONG, param |-> NoParam],
                                   !.pc = "send_lock"]
      [] OTHER -> [r EXCEPT !.resp = [cmd |-> ERROR,
                                      param |-> [kind |-> "error",
                                                 message |-> "Unrecognized command",
                                                 command |-> ERROR]],
                            !.pc = "send_lock"]

\* CommandRunner.exec_command up to its first blocking operation: the branch
\* taken for the command
ExecCommand(r) ==
    CASE r.cmd = SMARTCTL -> [r EXCEPT !.pc = "smart_ext"]
      [] r.cmd = GET_DISKS -> [r EXCEPT !.pc = "gd_lock"]
      [] r.cmd = GET_DISKS_WIN -> [r EXCEPT !.pc = "win_ext"]
      [] r.cmd = PING -> [r EXCEPT !.resp = [cmd |-> PONG, param |-> NoParam],
                                   !.pc = "send_lock"]
      [] OTHER -> [r EXCEPT !.resp = [cmd |-> ERROR,
                                      param |-> [kind |-> "error",
                                                 message |-> "Unrecognized command",
                                                 command |-> r.cmd]],
                            !.pc = "send_lock"]

\* the dict get_smartctl returns, with exec_command's send_msg next
SmartctlDone(r, updated, exitcode) ==
    [r EXCEPT !.resp = [cmd |-> r.cmd,
                        param |-> [kind |-> "smartctl", disk |-> r.args,
                                   status |-> r.status, updated |-> updated,
                                   exitcode |-> exitcode]],
              !.pc = "send_lock"]

\* exec_command is over: its locals are gone, run() goes on to
\* "with running_commands_lock:"
Finish(r) ==
    [r EXCEPT !.pc = "fin", !.resp = NoResp, !.todo = <<>>, !.result = <<>>,
              !.cur = <<>>, !.caller = "none", !.status = None]

\* mutant: run() has no except clause, the thread dies where it is
FaultUncaught(r) == [Finish(r) EXCEPT !.faulted = TRUE, !.pc = "done"]

\* run(): an exception left exec_command; it is logged
Fault(r) == [Finish(r) EXCEPT !.faulted = TRUE]

Release(l) == IF l.depth <= 1 THEN Unlocked ELSE [l EXCEPT !.depth = @ - 1]
Acquire(l, u) == [owner |-> Unit(u), depth |-> l.depth + 1]
CanAcquire(l, u) == l.owner = Free \/ l.owner = Unit(u)

\* CommandRunner._encode_param: json.dumps raises TypeError on a Disk object;
\* a get_disks result holds the lsblk dicts themselves, read when encoded
EncodeParam(param, dd) ==
    CASE param.kind = "manual" -> [ok |-> FALSE, json |-> NoParam]
      [] param.kind = "disks" ->
            [ok |-> TRUE,
             json |-> [kind |-> "disks",
                       list |-> [i \in 1..Len(param.refs) |->
                                   DiskAt(dd, param.refs[i]).lsblk]]]
      [] OTHER -> [ok |-> TRUE, json |-> param]

NoCall == [conn |-> 0, unit |-> 0, text |-> [cmd |-> <<>>, json |-> NoParam]]

\* mutant: clients[client_id] instead of clients.get(client_id): KeyError
SendMsgKeyError(u, client_id, cmd, param, registry, dd) ==
    IF client_id \notin registry THEN [kind |-> "fault", call |-> NoCall]
    ELSE IF param.kind = "none"
    THEN [kind |-> "handed",
          call |-> [conn |-> client_id, unit |-> u,
                    text |-> [cmd |-> cmd, json |-> NoParam]]]
    ELSE IF EncodeParam(param, dd).ok
    THEN [kind |-> "handed",
          call |-> [conn |-> client_id, unit |-> u,
                    text |-> [cmd |-> cmd, json |-> EncodeParam(param, dd).json]]]
    ELSE [kind |-> "fault", call |-> NoCall]

\* CommandRunner.send_msg, inside clients_lock: "dropped" (logged), "handed"
\* (callFromThread with the response string) or "fault" (an exception).
\* unit is history: the thread that made the call.
SendMsg(u, client_id, cmd, param, registry, dd) ==
    IF client_id \notin registry THEN [kind |-> "dropped", call |-> NoCall]
    ELSE IF param.kind = "none"
    THEN [kind |-> "handed",
          call |-> [conn |-> client_id, unit |-> u,
                    text |-> [cmd |-> cmd, json |-> NoParam]]]
    ELSE IF EncodeParam(param, dd).ok
    THEN [kind |-> "handed",
          call |-> [conn |-> client_id, unit |-> u,
                    text |-> [cmd |-> cmd, json |-> EncodeParam(param, dd).json]]]
    ELSE [kind |-> "fault", call |-> NoCall]

\* mutant: update_if_needed calls _get_code whatever the code is
HasCodeNever(d) == FALSE

\* Disk.update_if_needed: "if not self._code" is false
HasCode(d) == Truthy(d.code)

\* Disk.update_status reaches the call of update_item_features
NeedsStatusPush(d, tar) == tar /\ Truthy(d.code)

\* the message update_disk_if_needed sends for an ErrorThatCanBeManuallyFixed
ManualResp(r) ==
    [cmd |-> MANUAL,
     param |-> [kind |-> "manual", message |-> "str(e)", diskobj |-> r.cur]]

(* A thread inside "with disks_lock:" is followed as a triple: its record r,
   the disks dd and the lock lk. Each operator runs the thread up to its
   next blocking operation (an inventory call, or a lock). *)
RECURSIVE BeginUpdate(_, _, _)
RECURSIVE EndUpdate(_, _, _)

\* get_disks_to_send: the next device of the loop, or the end of the loop.
\* "disks[disk] is None" holds for no entry: only scan_for_disks stores
\* entries, and it stores constructed Disk objects.
GetDisksNext(s, tar, inventory) ==
    IF s.r.todo = <<>>
    THEN [s EXCEPT !.r = [s.r EXCEPT !.resp = [cmd |-> s.r.cmd,
                                               param |-> [kind |-> "disks",
                                                          refs |-> s.r.result]],
                                     !.pc = "send_lock"],
                   !.lk = Release(s.lk)]
    ELSE BeginUpdate([s EXCEPT !.r = [s.r EXCEPT !.cur = Head(s.r.todo),
                                                 !.todo = Tail(s.r.todo),
                                                 !.caller = "get_disks"]],
                     tar, inventory)

\* update_disk_if_needed returns: its lock level is released and the caller
\* goes on, get_smartctl to Disk.update_status, get_disks_to_send to
\* serialize_disk and the next device
EndUpdate(s, tar, inventory) ==
    LET d == DiskAt(s.dd, s.r.cur)
        out == [s EXCEPT !.lk = Release(s.lk)]
    IN  IF s.r.caller = "smartctl"
        THEN IF NeedsStatusPush(d, tar)
             THEN [out EXCEPT !.r = [s.r EXCEPT !.pc = "status_ext"]]
             ELSE [out EXCEPT !.r = SmartctlDone(s.r, TRUE, 0),
                              !.lk = Release(out.lk)]
        ELSE GetDisksNext([out EXCEPT !.dd = PutDisk(s.dd, s.r.cur, SerializeDisk(d)),
                                      !.r = [s.r EXCEPT !.result = Append(@, s.r.cur)]],
                          tar, inventory)

\* update_disk_if_needed after Disk._get_code ended with exc
AfterGetCode(s, exc, tar, inventory) ==
    LET d == DiskAt(s.dd, s.r.cur) IN
      CASE exc = "manual" -> [s EXCEPT !.r = [s.r EXCEPT !.pc = "manual_lock"]]
        [] exc = "fault" -> EndUpdate(s, tar, inventory)
        [] OTHER ->
            IF NeedsItem(d, tar) THEN [s EXCEPT !.r = [s.r EXCEPT !.pc = "item_ext"]]
            ELSE EndUpdate([s EXCEPT !.dd = PutDisk(s.dd, s.r.cur,
                                                    GetItem(d, tar, TRUE).disk)],
                           tar, inventory)

\* update_disk_if_needed: "with disks_lock:" again, then Disk.update_if_needed
BeginUpdate(s, tar, inventory) ==
    LET d == DiskAt(s.dd, s.r.cur)
        got == GetCode(d, tar, inventory, TRUE, TRUE)
        held == [s EXCEPT !.lk = [s.lk EXCEPT !.depth = @ + 1]]
    IN  IF HasCode(d) THEN AfterGetCode(held, "ok", tar, inventory)
        ELSE IF NeedsLookup(d, tar)
        THEN [held EXCEPT !.r = [s.r EXCEPT !.pc = "lookup_ext"]]
        ELSE AfterGetCode([held EXCEPT !.dd = PutDisk(s.dd, s.r.cur, got.disk)],
                          got.exc, tar, inventory)

\* get_smartctl: "with disks_lock:" and "if dev in disks:"
SmartctlLocked(s, tar, inventory) ==
    IF HasPath(s.dd, s.r.args)
    THEN BeginUpdate([s EXCEPT !.r = [s.r EXCEPT !.cur = s.r.args,
                                                 !.caller = "smartctl"]],
                     tar, inventory)
    ELSE [s EXCEPT !.r = SmartctlDone(s.r, FALSE, 0), !.lk = Release(s.lk)]

\* get_disks_to_send: "with disks_lock:" and "for disk in disks:"
GetDisksLocked(s, tar, inventory) ==
    GetDisksNext([s EXCEPT !.r = [s.r EXCEPT !.todo = Keys(s.dd), !.result = <<>>]],
                 tar, inventory)

(* ---- the inventory's other users ---- *)
\* an item gets the serial as its "sn" feature, or loses it
InventoryEdit(c, sn) ==
    /\ tarallo
    /\ phase \in {"scanning", "running", "stopping"}
    /\ Arrivals < MaxArrivals
    /\ inv[c].sn # sn
    /\ inv' = [inv EXCEPT ![c].sn = sn]
    /\ edits' = edits + 1
    /\ UNCHANGED <<phase, tarallo, toScan, disks, disks_lock, conn_id, conns, clients,
                   clients_lock, running_commands, running_commands_lock, units,
                   reactor, calls, main, skipped>>

(* ---- the reactor thread ---- *)
\* mutant: the handlers take disks_lock as well
ReactorLocksWithDisks == {"running_commands_lock", "clients_lock", "disks_lock"}

\* the locks connectionMade, connectionLost and lineReceived take
ReactorLocks == {"running_commands_lock", "clients_lock"}

\* mutant: "self.factory.conn_id += 1" is lost
ConnectionMadeNoIncrement ==
    /\ phase = "running"
    /\ reactor.pc = "idle"
    /\ conn_id < MaxConns
    /\ Arrivals < MaxArrivals
    /\ running_commands_lock = Free
    /\ running_commands_lock' = Reactor
    /\ conns' = Append(conns, NewProtocol(conn_id))
    /\ conn_id' = conn_id
    /\ reactor' = [pc |-> "cm_cl", conn |-> conn_id, unit |-> 0]
    /\ UNCHANGED <<phase, tarallo, inv, toScan, disks, disks_lock, clients, clients_lock,
                   running_commands, units, calls, main, edits, skipped>>

\* TurboProtocol.connectionMade, up to "with clients_lock:"
ConnectionMade ==
    /\ phase = "running"
    /\ reactor.pc = "idle"
    /\ conn_id < MaxConns
    /\ Arrivals < MaxArrivals
    /\ running_commands_lock = Free
    /\ running_commands_lock' = Reactor
    /\ conns' = Append(conns, NewProtocol(conn_id))
    /\ conn_id' = conn_id + 1
    /\ reactor' = [pc |-> "cm_cl", conn |-> conn_id, unit |-> 0]
    /\ UNCHANGED <<phase, tarallo, inv, toScan, disks, disks_lock, clients, clients_lock,
                   running_commands, units, calls, main, edits, skipped>>

\* clients[self._id] = self, and both locks released
ConnectionMadeBody ==
    /\ reactor.pc = "cm_cl"
    /\ clients_lock = Free
    /\ clients' = clients \cup {reactor.conn}
    /\ running_commands_lock' = Free
    /\ reactor' = Idle
    /\ UNCHANGED <<phase, tarallo, inv, toScan, disks, disks_lock, conn_id, conns,
                   clients_lock, running_commands, units, calls, main, edits, skipped>>

\* the transport is gone (the peer closed, or loseConnection completed):
\* TurboProtocol.connectionLost, up to "with clients_lock:"
ConnectionLost(c) ==
    /\ phase = "running"
    /\ reactor.pc = "idle"
    /\ c \in ConnIds
    /\ Conn(c).status \in {"open", "closing"}
    /\ running_commands_lock = Free
    /\ running_commands_lock' = Reactor
    /\ conns' = [conns EXCEPT ![c + 1].status = "closed"]
    /\ reactor' = [pc |-> "cl_cl", conn |-> c, unit |-> 0]
    /\ UNCHANGED <<phase, tarallo, inv, toScan, disks, disks_lock, conn_id, clients,
                   clients_lock, running_commands, units, calls, main, edits, skipped>>

\* del clients[self._id], and both locks released
ConnectionLostBody ==
    /\ reactor.pc = "cl_cl"
    /\ clients_lock = Free
    /\ clients' = clients \ {reactor.conn}
    /\ running_commands_lock' = Free
    /\ reactor' = Idle
    /\ UNCHANGED <<phase, tarallo, inv, toScan, disks, disks_lock, conn_id, conns,
                   clients_lock, running_commands, units, calls, main, edits, skipped>>

\* mutant: the bytes are decoded with errors ignored, nothing is caught
LineReceivedNoDecodeCheck(c, line) ==
    /\ phase = "running"
    /\ reactor.pc = "idle"
    /\ c \in ConnIds
    /\ Conn(c).status = "open"
    /\ LET p0 == Seen(Conn(c), line)
           p1 == DetectDelimiter(p0, line.text)
           stripped == Strip(line.text)
       IN  IF IsExit(line.text)
           THEN /\ Arrivals < MaxArrivals
                /\ conns' = [conns EXCEPT ![c + 1] = [p1 EXCEPT !.status = "closing"]]
                /\ UNCHANGED <<units, running_commands>>
           ELSE /\ Len(units) < MaxUnits
                /\ Arrivals < MaxArrivals
                /\ running_commands_lock = Free
                /\ conns' = [conns EXCEPT ![c + 1] = p1]
                /\ units' = Append(units,
                       ExecCommand(NewRunner(SplitCmd(stripped), SplitArgs(stripped), c)))
                /\ running_commands' = running_commands \cup {Len(units) + 1}
    /\ UNCHANGED <<phase, tarallo, inv, toScan, disks, disks_lock, conn_id, clients,
                   clients_lock, running_commands_lock, reactor, calls, main, edits, skipped>>

\* TurboProtocol.lineReceived; for a command: CommandRunner(...), which adds
\* itself to running_commands, running_commands.add(cr) and cr.start(), which
\* runs the new thread up to its first blocking operation
LineReceived(c, line) ==
    /\ phase = "running"
    /\ reactor.pc = "idle"
    /\ c \in ConnIds
    /\ Conn(c).status = "open"
    /\ LET p0 == Seen(Conn(c), line)
           p1 == DetectDelimiter(p0, line.text)
           stripped == Strip(line.text)
       IN  IF ~line.ok
           THEN \* UnicodeDecodeError: logged, return
                /\ conns' = [conns EXCEPT ![c + 1] = p0]
                /\ UNCHANGED <<units, running_commands>>
           ELSE IF IsExit(line.text)
           THEN \* self.transport.loseConnection()
                /\ Arrivals < MaxArrivals
                /\ conns' = [conns EXCEPT ![c + 1] = [p1 EXCEPT !.status = "closing"]]
                /\ UNCHANGED <<units, running_commands>>
           ELSE /\ Len(units) < MaxUnits
                /\ Arrivals < MaxArrivals
                /\ running_commands_lock = Free
                /\ conns' = [conns EXCEPT ![c + 1] = p1]
                /\ units' = Append(units,
                       ExecCommand(NewRunner(SplitCmd(stripped), SplitArgs(stripped), c)))
                /\ running_commands' = running_commands \cup {Len(units) + 1}
    /\ UNCHANGED <<phase, tarallo, inv, toScan, disks, disks_lock, conn_id, clients,
                   clients_lock, running_commands_lock, reactor, calls, main, edits, skipped>>

\* the reactor runs a call queued by callFromThread: TurboProtocol.send_msg
DeliverCall ==
    /\ phase = "running"
    /\ reactor.pc = "idle"
    /\ calls # <<>>
    /\ LET call == Head(calls)
           p == Conn(call.conn)
       IN  conns' = IF p.delimiter_found
                    THEN [conns EXCEPT ![call.conn + 1].out =
                            Append(@, [text |-> call.text, unit |-> call.unit,
                                       delimiter |-> p.delimiter, status |-> p.status])]
                    ELSE conns
    /\ calls' = Tail(calls)
    /\ UNCHANGED <<phase, tarallo, inv, toScan, disks, disks_lock, conn_id, clients,
                   clients_lock, running_commands, running_commands_lock, units, reactor,
                   main, edits, skipped>>

(* ---- the command threads: steps ---- *)
\* get_smartctl: the subprocess ends (or Popen / decode raises)
SmartctlReturn(u) ==
    /\ u \in 1..Len(units)
    /\ units[u].pc = "smart_ext"
    /\ \E outcome \in {"zero", "nonzero", "fault"} :
         units' = [units EXCEPT ![u] =
            CASE outcome = "fault" -> Fault(@)
              [] outcome = "nonzero" -> SmartctlDone(@, FALSE, 1)
              [] OTHER -> [@ EXCEPT !.status = GetSmartctlStatus, !.pc = "smart_lock"]]
    /\ UNCHANGED <<phase, tarallo, inv, toScan, disks, disks_lock, conn_id, conns,
                   clients, clients_lock, running_commands, running_commands_lock,
                   reactor, calls, main, edits, skipped>>

\* get_disks_win: the two wmic listings, zipped by position
WinReturn(u) ==
    /\ u \in 1..Len(units)
    /\ units[u].pc = "win_ext"
    /\ \E nl \in 0..MaxWin, ns \in 0..MaxWin :
         units' = [units EXCEPT ![u] =
            IF ns > nl THEN Fault(@)   \* label[idx]: IndexError
            ELSE [@ EXCEPT !.resp = [cmd |-> units[u].cmd,
                                     param |-> [kind |-> "win",
                                                drive |-> [i \in 1..ns |->
                                                    <<WinLabels[i], WinSizes[i]>>]]],
                           !.pc = "send_lock"]]
    /\ UNCHANGED <<phase, tarallo, inv, toScan, disks, disks_lock, conn_id, conns,
                   clients, clients_lock, running_commands, running_commands_lock,
                   reactor, calls, main, edits, skipped>>

\* "with disks_lock:" in get_smartctl or get_disks_to_send is entered
LockDisks(u) ==
    /\ u \in 1..Len(units)
    /\ units[u].pc \in {"smart_lock", "gd_lock"}
    /\ CanAcquire(disks_lock, u)
    /\ LET s == [r |-> units[u], dd |-> disks, lk |-> Acquire(disks_lock, u)]
           t == IF units[u].pc = "smart_lock" THEN SmartctlLocked(s, tarallo, inv)
                ELSE GetDisksLocked(s, tarallo, inv)
       IN  /\ units' = [units EXCEPT ![u] = t.r]
           /\ disks' = t.dd
           /\ disks_lock' = t.lk
    /\ UNCHANGED <<phase, tarallo, inv, toScan, conn_id, conns, clients, clients_lock,
                   running_commands, running_commands_lock, reactor, calls, main, edits, skipped>>

\* Disk._get_code: get_codes_by_feature returns or raises
LookupReturn(u) ==
    /\ u \in 1..Len(units)
    /\ units[u].pc = "lookup_ext"
    /\ \E answered \in BOOLEAN :
         LET got == GetCode(DiskAt(disks, units[u].cur), tarallo, inv, TRUE, answered)
             s == [r |-> units[u], dd |-> PutDisk(disks, units[u].cur, got.disk),
                   lk |-> disks_lock]
             t == AfterGetCode(s, got.exc, tarallo, inv)
         IN  /\ units' = [units EXCEPT ![u] = t.r]
             /\ disks' = t.dd
             /\ disks_lock' = t.lk
    /\ UNCHANGED <<phase, tarallo, inv, toScan, conn_id, conns, clients, clients_lock,
                   running_commands, running_commands_lock, reactor, calls, main, edits, skipped>>

\* Disk._get_item: get_item returns or raises (update_disk_if_needed swallows it)
ItemReturn(u) ==
    /\ u \in 1..Len(units)
    /\ units[u].pc = "item_ext"
    /\ \E answered \in BOOLEAN :
         LET got == GetItem(DiskAt(disks, units[u].cur), tarallo, answered)
             s == [r |-> units[u], dd |-> PutDisk(disks, units[u].cur, got.disk),
                   lk |-> disks_lock]
             t == EndUpdate(s, tarallo, inv)
         IN  /\ units' = [units EXCEPT ![u] = t.r]
             /\ disks' = t.dd
             /\ disks_lock' = t.lk
    /\ UNCHANGED <<phase, tarallo, inv, toScan, conn_id, conns, clients, clients_lock,
                   running_commands, running_commands_lock, reactor, calls, main, edits, skipped>>

\* Disk.update_status: update_item_features returns or raises; get_smartctl
\* then leaves disks_lock
StatusReturn(u) ==
    /\ u \in 1..Len(units)
    /\ units[u].pc = "status_ext"
    /\ \E answered \in BOOLEAN :
         /\ answered => inv[DiskAt(disks, units[u].cur).code].sn # AbsentKey
         /\ inv' = IF answered
                   THEN UpdateItemFeatures(inv, DiskAt(disks, units[u].cur).code,
                                           units[u].status)
                   ELSE inv
         /\ units' = [units EXCEPT ![u] = SmartctlDone(@, answered, 0)]
    /\ disks_lock' = Release(disks_lock)
    /\ UNCHANGED <<phase, tarallo, toScan, disks, conn_id, conns, clients, clients_lock,
                   running_commands, running_commands_lock, reactor, calls, main, edits, skipped>>

\* "with clients_lock:" in CommandRunner.send_msg is entered
UnitLockClients(u) ==
    /\ u \in 1..Len(units)
    /\ units[u].pc \in {"manual_lock", "send_lock"}
    /\ clients_lock = Free
    /\ clients_lock' = Unit(u)
    /\ units' = [units EXCEPT ![u].pc = IF @ = "manual_lock" THEN "manual_send"
                                        ELSE "send_body"]
    /\ UNCHANGED <<phase, tarallo, inv, toScan, disks, disks_lock, conn_id, conns,
                   clients, running_commands, running_commands_lock, reactor, calls, main, edits, skipped>>

\* mutant: send_msg returns with clients_lock still held
SendMsgBodyKeepsLock(u) ==
    /\ u \in 1..Len(units)
    /\ units[u].pc \in {"manual_send", "send_body"}
    /\ LET r == units[u]
           manual == r.pc = "manual_send"
           resp == IF manual THEN ManualResp(r) ELSE r.resp
           res == SendMsg(u, r.the_id, resp.cmd, resp.param, clients, disks)
           counted == CASE res.kind = "handed" -> [r EXCEPT !.sent = @ + 1]
                        [] res.kind = "dropped" -> [r EXCEPT !.dropped = @ + 1]
                        [] OTHER -> r
           t == IF res.kind = "fault"
                THEN [r |-> Fault(r), dd |-> disks,
                      lk |-> IF manual THEN Unlocked ELSE disks_lock]
                ELSE IF manual
                THEN EndUpdate([r |-> counted, dd |-> disks, lk |-> disks_lock],
                               tarallo, inv)
                ELSE [r |-> Finish(counted), dd |-> disks, lk |-> disks_lock]
       IN  /\ calls' = IF res.kind = "handed" THEN Append(calls, res.call) ELSE calls
           /\ units' = [units EXCEPT ![u] = t.r]
           /\ disks' = t.dd
           /\ disks_lock' = t.lk
    /\ UNCHANGED <<phase, tarallo, inv, toScan, conn_id, conns, clients, clients_lock,
                   running_commands, running_commands_lock, reactor, main, edits, skipped>>

\* mutant: thread.send_msg(response_string) is called where it stands, not
\* through reactor.callFromThread
SendMsgBodyDirect(u) ==
    /\ u \in 1..Len(units)
    /\ units[u].pc \in {"manual_send", "send_body"}
    /\ LET r == units[u]
           manual == r.pc = "manual_send"
           resp == IF manual THEN ManualResp(r) ELSE r.resp
           res == SendMsg(u, r.the_id, resp.cmd, resp.param, clients, disks)
           counted == CASE res.kind = "handed" -> [r EXCEPT !.sent = @ + 1]
                        [] res.kind = "dropped" -> [r EXCEPT !.dropped = @ + 1]
                        [] OTHER -> r
           t == IF res.kind = "fault"
                THEN [r |-> Fault(r), dd |-> disks,
                      lk |-> IF manual THEN Unlocked ELSE disks_lock]
                ELSE IF manual
                THEN EndUpdate([r |-> counted, dd |-> disks, lk |-> disks_lock],
                               tarallo, inv)
                ELSE [r |-> Finish(counted), dd |-> disks, lk |-> disks_lock]
           p == Conn(r.the_id)
       IN  /\ conns' = IF res.kind = "handed" /\ p.delimiter_found
                        THEN [conns EXCEPT ![r.the_id + 1].out =
                                Append(@, [text |-> res.call.text, unit |-> u,
                                           delimiter |-> p.delimiter, status |-> p.status])]
                        ELSE conns
           /\ units' = [units EXCEPT ![u] = t.r]
           /\ disks' = t.dd
           /\ disks_lock' = t.lk
    /\ clients_lock' = Free
    /\ UNCHANGED <<phase, tarallo, inv, toScan, conn_id, calls, clients,
                   running_commands, running_commands_lock, reactor, main, edits, skipped>>

\* CommandRunner.send_msg inside the lock, called by exec_command or by
\* update_disk_if_needed's except clause; the lock is released on the way out
SendMsgBody(u) ==
    /\ u \in 1..Len(units)
    /\ units[u].pc \in {"manual_send", "send_body"}
    /\ LET r == units[u]
           manual == r.pc = "manual_send"
           resp == IF manual THEN ManualResp(r) ELSE r.resp
           res == SendMsg(u, r.the_id, resp.cmd, resp.param, clients, disks)
           counted == CASE res.kind = "handed" -> [r EXCEPT !.sent = @ + 1]
                        [] res.kind = "dropped" -> [r EXCEPT !.dropped = @ + 1]
                        [] OTHER -> r
           t == IF res.kind = "fault"
                THEN [r |-> Fault(r), dd |-> disks,
                      lk |-> IF manual THEN Unlocked ELSE disks_lock]
                ELSE IF manual
                THEN EndUpdate([r |-> counted, dd |-> disks, lk |-> disks_lock],
                               tarallo, inv)
                ELSE [r |-> Finish(counted), dd |-> disks, lk |-> disks_lock]
       IN  /\ calls' = IF res.kind = "handed" THEN Append(calls, res.call) ELSE calls
           /\ units' = [units EXCEPT ![u] = t.r]
           /\ disks' = t.dd
           /\ disks_lock' = t.lk
    /\ clients_lock' = Free
    /\ UNCHANGED <<phase, tarallo, inv, toScan, conn_id, conns, clients,
                   running_commands, running_commands_lock, reactor, main, edits, skipped>>

\* run(): "with running_commands_lock: running_commands.remove(self)", and
\* the thread ends
RunnerRemove(u) ==
    /\ u \in 1..Len(units)
    /\ units[u].pc = "fin"
    /\ running_commands_lock = Free
    /\ running_commands' = running_commands \ {u}
    /\ units' = [units EXCEPT ![u].pc = "done"]
    /\ UNCHANGED <<phase, tarallo, inv, toScan, disks, disks_lock, conn_id, conns,
                   clients, clients_lock, running_commands_lock, reactor, calls, main, edits, skipped>>

(* ---- shutdown: main() after reactor.run() returned ---- *)
\* the reactor stops (KeyboardInterrupt); no handler runs afterwards
Terminate ==
    /\ phase = "running"
    /\ reactor.pc = "idle"
    /\ Arrivals < MaxArrivals
    /\ phase' = "stopping"
    /\ main' = [pc |-> "check", unit |-> 0]
    /\ UNCHANGED <<tarallo, inv, toScan, disks, disks_lock, conn_id, conns, clients,
                   clients_lock, running_commands, running_commands_lock, units,
                   reactor, calls, edits, skipped>>

\* mutant: the loop's condition is taken for false at once
MainCheckNoWait ==
    /\ phase = "stopping"
    /\ main.pc = "check"
    /\ phase' = "exited" /\ UNCHANGED main
    /\ UNCHANGED <<tarallo, inv, toScan, disks, disks_lock, conn_id, conns, clients,
                   clients_lock, running_commands, running_commands_lock, units,
                   reactor, calls, edits, skipped>>

\* while len(running_commands) > 0
MainCheck ==
    /\ phase = "stopping"
    /\ main.pc = "check"
    /\ IF running_commands = {}
       THEN phase' = "exited" /\ UNCHANGED main
       ELSE main' = [main EXCEPT !.pc = "pick"] /\ UNCHANGED phase
    /\ UNCHANGED <<tarallo, inv, toScan, disks, disks_lock, conn_id, conns, clients,
                   clients_lock, running_commands, running_commands_lock, units,
                   reactor, calls, edits, skipped>>

\* with running_commands_lock: next(iter(running_commands)); then stop_asap()
MainPick ==
    /\ phase = "stopping"
    /\ main.pc = "pick"
    /\ running_commands_lock = Free
    /\ IF running_commands = {}
       THEN phase' = "aborted" /\ UNCHANGED main   \* StopIteration
       ELSE /\ \E t \in running_commands : main' = [pc |-> "join", unit |-> t]
            /\ UNCHANGED phase
    /\ UNCHANGED <<tarallo, inv, toScan, disks, disks_lock, conn_id, conns, clients,
                   clients_lock, running_commands, running_commands_lock, units,
                   reactor, calls, edits, skipped>>

\* thread_to_stop.join() returns
MainJoin ==
    /\ phase = "stopping"
    /\ main.pc = "join"
    /\ units[main.unit].pc = "done"
    /\ main' = [main EXCEPT !.pc = "check"]
    /\ UNCHANGED <<phase, tarallo, inv, toScan, disks, disks_lock, conn_id, conns,
                   clients, clients_lock, running_commands, running_commands_lock,
                   units, reactor, calls, edits, skipped>>

UnitIds == 1..MaxUnits

Next ==
    \/ ScanDisk
    \/ StartListening
    \/ ConnectionMade
    \/ ConnectionMadeBody
    \/ \E c \in 0..(MaxConns - 1) : ConnectionLost(c)
    \/ ConnectionLostBody
    \/ \E c \in 0..(MaxConns - 1), line \in Lines : LineReceived(c, line)
    \/ DeliverCall
    \/ \E u \in UnitIds : SmartctlReturn(u)
    \/ \E u \in UnitIds : WinReturn(u)
    \/ \E u \in UnitIds : LockDisks(u)
    \/ \E u \in UnitIds : LookupReturn(u)
    \/ \E u \in UnitIds : ItemReturn(u)
    \/ \E u \in UnitIds : StatusReturn(u)
    \/ \E u \in UnitIds : UnitLockClients(u)
    \/ \E u \in UnitIds : SendMsgBody(u)
    \/ \E u \in UnitIds : RunnerRemove(u)
    \/ Terminate
    \/ MainCheck
    \/ MainPick
    \/ MainJoin
    \/ \E c \in Codes, sn \in {AbsentKey, SerialA} : InventoryEdit(c, sn)

Spec == Init /\ [][Next]_vars

(* ---- a specification with the scheduling the threads get ----
   The reactor runs its handlers and queued calls, and a thread that is not
   inside an external call (subprocess, inventory) keeps running. External
   calls may never return; clients, the inventory's users and the operator
   act when they like. *)
Fairness ==
    /\ WF_vars(ScanDisk)
    /\ WF_vars(StartListening)
    /\ WF_vars(ConnectionMadeBody)
    /\ WF_vars(ConnectionLostBody)
    /\ WF_vars(DeliverCall)
    /\ \A u \in UnitIds : WF_vars(LockDisks(u))
    /\ \A u \in UnitIds : WF_vars(UnitLockClients(u))
    /\ \A u \in UnitIds : WF_vars(SendMsgBody(u))
    /\ \A u \in UnitIds : WF_vars(RunnerRemove(u))
    /\ WF_vars(MainCheck)
    /\ WF_vars(MainPick)
    /\ WF_vars(MainJoin)

LiveInit ==
    /\ Init
    /\ tarallo
    /\ inv["AB12"].sn = SerialA
    /\ toScan = <<[path |-> PathA, serial |-> SerialWDA, code |-> "NoKey"]>>

LiveSpec == LiveInit /\ [][Next]_vars /\ Fairness

(* ---- properties ---- *)
IsUnit(u) == u \in 1..Len(units)

\* the response strings thread u produced: queued for the reactor, or written
Responses(u) ==
    {calls[i].text : i \in {j \in 1..Len(calls) : calls[j].unit = u}}
    \cup UNION {{conns[k].out[i].text :
                   i \in {j \in 1..Len(conns[k].out) : conns[k].out[j].unit = u}} :
                k \in 1..Len(conns)}

Known == {PING, GET_DISKS, GET_DISKS_WIN, SMARTCTL}
Upper == {"P", "I", "N", "G", "E", "X", "T", "F"}

(* C1: every command thread that has ended while its connection is open and
   registered has handed exactly one response to the reactor, also when the
   command raised. *)
C1_ExactlyOneResponse ==
    \A u \in 1..Len(units) :
        (/\ units[u].pc = "done"
         /\ Conn(units[u].the_id).status = "open"
         /\ units[u].the_id \in clients) => units[u].sent = 1

(* C2, as stated: the delimiter of a connection is the one its first received
   line ended with, and every response written on it carries that one. *)
C2_FirstLineDecides ==
    \A k \in 1..Len(conns) :
        /\ conns[k].first # "none" =>
              conns[k].delimiter_found /\ conns[k].delimiter = conns[k].first
        /\ \A i \in 1..Len(conns[k].out) : conns[k].out[i].delimiter = conns[k].first

(* C2, amended: the delimiter of a connection is fixed by the first received
   line that is valid UTF-8 (CRLF if it ends with a carriage return, LF
   otherwise), is the same in every later state, and every response written
   on the connection carries it. *)
C2_DelimiterFixed ==
    \A k \in 1..Len(conns) :
        /\ conns[k].delimiter_found <=> conns[k].decoded # "none"
        /\ conns[k].delimiter_found => conns[k].delimiter = conns[k].decoded
        /\ \A i \in 1..Len(conns[k].out) : conns[k].out[i].delimiter = conns[k].decoded

C2_Witness ==
    \E k \in 1..Len(conns) :
        /\ conns[k].first = "CRLF"
        /\ conns[k].decoded = "LF"
        /\ Len(conns[k].out) > 0
        /\ conns[k].out[1].delimiter = "LF"

PongWritten(u) ==
    \E i \in 1..Len(Conn(units[u].the_id).out) :
        /\ Conn(units[u].the_id).out[i].unit = u
        /\ Conn(units[u].the_id).out[i].text = [cmd |-> PONG, json |-> NoParam]

(* C3: whatever a ping thread hands to the reactor is the bare pong, and a
   ping is followed by its pong being written to its connection unless the
   connection closes or the reactor stops, also while another thread stays
   in an inventory call with disks_lock held. *)
C3_PingPong ==
    /\ [](\A u \in 1..Len(units) :
            units[u].cmd = PING =>
                \A t \in Responses(u) : t = [cmd |-> PONG, json |-> NoParam])
    /\ \A u \in UnitIds :
          (IsUnit(u) /\ units[u].cmd = PING)
              ~> (IsUnit(u) /\ (\/ PongWritten(u)
                                 \/ Conn(units[u].the_id).status # "open"
                                 \/ phase # "running"))

C3_Witness ==
    \E u \in 1..Len(units), v \in 1..Len(units) :
        /\ units[u].cmd = PING
        /\ PongWritten(u)
        /\ units[v].pc = "lookup_ext"
        /\ disks_lock.owner = Unit(v)
        /\ v < u

(* C4: a disk's code is None, or the last get_codes_by_feature call made for
   the disk was answered with exactly that one code, and asked for the
   serial without its WD- prefix. *)
C4_CodeFromSingleMatch ==
    \A i \in 1..Len(disks) :
        LET d == disks[i].disk IN
          d.code # None =>
            /\ d.asked # <<>>
            /\ d.asked[Len(d.asked)].answered
            /\ d.asked[Len(d.asked)].codes = <<d.code>>
            /\ \/ WD \o d.asked[Len(d.asked)].query = d.lsblk.serial
               \/ /\ ~StartsWith(d.lsblk.serial, WD)
                  /\ d.asked[Len(d.asked)].query = d.lsblk.serial

C4_Witness ==
    \E i \in 1..Len(disks) :
        LET d == disks[i].disk IN
          /\ d.code = "AB12"
          /\ Len(d.asked) = 2
          /\ Len(d.asked[1].codes) = 2
          /\ d.lsblk.serial = SerialWDA

(* C5: once the scan is over, a step leaves the code of a disk that has one
   as it is, and makes no get_codes_by_feature call for that disk. *)
C5_ResolvedCodeKept ==
    [][phase # "scanning" =>
         \A i \in 1..Len(disks) :
             Truthy(disks[i].disk.code) =>
                /\ i \in 1..Len(disks')
                /\ disks'[i].disk.code = disks[i].disk.code
                /\ disks'[i].disk.asked = disks[i].disk.asked]_vars

C5_Witness ==
    \E u \in 1..Len(units), i \in 1..Len(disks) :
        /\ units[u].cmd \in {GET_DISKS, SMARTCTL}
        /\ units[u].pc = "done"
        /\ units[u].sent = 1
        /\ disks[i].disk.code = "AB12"
        /\ disks[i].disk.lsblk.code = "AB12"
        /\ Len(disks[i].disk.asked) = 1

(* C6: a smartctl result says updated exactly when the tool exited 0, the
   device is in disks and the inventory item of the disk's code carries the
   status of the result. *)
C6_UpdatedIffPushed ==
    \A u \in 1..Len(units) :
        LET p == units[u].resp.param IN
          p.kind = "smartctl" =>
            (p.updated <=>
               /\ p.exitcode = 0
               /\ HasPath(disks, p.disk)
               /\ Truthy(DiskAt(disks, p.disk).code)
               /\ inv[DiskAt(disks, p.disk).code].smart = p.status)

(* C7: a send_msg for a connection that is no longer in clients hands
   nothing to the reactor, writes nothing, raises nothing and goes on; the
   thread then ends and leaves running_commands. *)
C7_DroppedWhenClosed ==
    /\ [][\A u \in 1..Len(units) :
            (/\ units[u].pc \in {"send_body", "manual_send"}
             /\ units[u].the_id \notin clients
             /\ units'[u] # units[u])
            => /\ calls' = calls
               /\ conns' = conns
               /\ ~units'[u].faulted
               /\ units'[u].dropped = units[u].dropped + 1
               /\ units'[u].sent = units[u].sent
               /\ units[u].pc = "send_body" => units'[u].pc = "fin"]_vars
    /\ \A u \in UnitIds :
          (IsUnit(u) /\ units[u].dropped > 0 /\ units[u].pc = "fin")
              ~> (IsUnit(u) /\ units[u].pc = "done" /\ u \notin running_commands)

C7_Witness ==
    \E u \in 1..Len(units) :
        /\ units[u].pc = "done"
        /\ units[u].dropped = 1
        /\ units[u].sent = 0
        /\ ~units[u].faulted
        /\ u \notin running_commands
        /\ calls = <<>>
        /\ \A k \in 1..Len(conns) : conns[k].out = <<>>

(* C8: a line that, trimmed, begins with exit puts the connection in closing
   in the step that receives it, a step that creates no thread and queues or
   writes no response; and a closed connection whose connectionLost has
   returned is not in clients. *)
C8_ExitCloses ==
    /\ [](\A k \in 1..Len(conns) :
            /\ conns[k].sawExit => conns[k].status \in {"closing", "closed"}
            /\ (conns[k].status = "closed"
                  /\ ~(reactor.pc = "cl_cl" /\ reactor.conn = conns[k].id))
               => conns[k].id \notin clients)
    /\ [][\A k \in 1..Len(conns) :
            (~conns[k].sawExit /\ conns'[k].sawExit)
            => /\ units' = units
               /\ running_commands' = running_commands
               /\ calls' = calls
               /\ conns'[k].out = conns[k].out
               /\ conns'[k].status = "closing"]_vars

C8_Witness ==
    \E k \in 1..Len(conns) :
        /\ conns[k].sawExit
        /\ conns[k].status = "closed"
        /\ conns[k].delimiter = "CRLF"
        /\ conns[k].id \notin clients
        /\ units = <<>>

UnrecognizedResp(cmd) ==
    [cmd |-> ERROR,
     json |-> [kind |-> "error", message |-> "Unrecognized command", command |-> cmd]]

(* C9: a thread whose command is none of ping, get_disks, get_disks_win and
   smartctl produces only the error response that names its lower-case
   command, exactly one if its connection is still registered when it ends,
   and none of its steps changes disks, the inventory, clients or the state
   of its connection. *)
C9_UnrecognizedCommand ==
    /\ [](\A u \in 1..Len(units) :
            units[u].cmd \notin Known =>
               /\ \A t \in Responses(u) : t = UnrecognizedResp(units[u].cmd)
               /\ \A i \in 1..Len(units[u].cmd) : units[u].cmd[i] \notin Upper
               /\ ~units[u].faulted
               /\ (units[u].pc = "done" /\ units[u].the_id \in clients)
                     => units[u].sent = 1)
    /\ [][\A u \in 1..Len(units') :
            (/\ units'[u].cmd \notin Known
             /\ (u > Len(units) \/ units'[u] # units[u]))
            => /\ disks' = disks
               /\ inv' = inv
               /\ clients' = clients
               /\ conns'[units'[u].the_id + 1].status
                    = conns[units'[u].the_id + 1].status]_vars

C9_Witness ==
    \E u \in 1..Len(units) :
        /\ units[u].cmd = EXIT
        /\ units[u].args = <<"x">>
        /\ units[u].pc = "done"
        /\ Conn(units[u].the_id).status = "open"
        /\ units[u].the_id \in clients
        /\ \E i \in 1..Len(Conn(units[u].the_id).out) :
              Conn(units[u].the_id).out[i].text = UnrecognizedResp(EXIT)

ManualQueuedOrWritten ==
    \/ \E i \in 1..Len(calls) : calls[i].text.cmd = MANUAL
    \/ \E k \in 1..Len(conns) : \E i \in 1..Len(conns[k].out) :
          conns[k].out[i].text.cmd = MANUAL

(* C10: a disk whose construction met several inventory matches has had an
   error_that_can_be_manually_fixed response produced for it, and a thread
   that re-resolves a disk never raises ErrorThatCanBeManuallyFixed, which
   would take it to the send_msg of update_disk_if_needed. *)
C10_EagerSurfacedLazyLogged ==
    /\ \A i \in 1..Len(disks) :
          (disks[i].disk.asked # <<>> /\ Len(disks[i].disk.asked[1].codes) > 1)
             => ManualQueuedOrWritten
    /\ \A u \in 1..Len(units) : units[u].pc \notin {"manual_lock", "manual_send"}

(* C11: no two entries of disks have serials that are equal once the WD-
   prefix is removed. *)
C11_NoTwoEntriesForOneSerial ==
    \A i \in 1..Len(disks), j \in 1..Len(disks) :
        (/\ i # j
         /\ IsText(disks[i].disk.lsblk.serial)
         /\ IsText(disks[j].disk.lsblk.serial))
        => Normalize(disks[i].disk.lsblk.serial) # Normalize(disks[j].disk.lsblk.serial)

(* C13: no connection exists and no thread runs before the scan is over, and
   scan_for_disks never ends main() with an exception, whatever lsblk
   reported. *)
C13_ScanNeverAborts ==
    /\ phase = "scanning" => (conns = <<>> /\ units = <<>>)
    /\ ~(phase = "aborted" /\ main.pc = "run")

(* C14: a get_disks that was answered has given a record to every device
   whose construction scan_for_disks had skipped. *)
C14_SkippedDeviceGetsRecord ==
    \A u \in 1..Len(units) :
        (units[u].cmd = GET_DISKS /\ units[u].pc = "done" /\ units[u].sent = 1)
        => \A p \in skipped : HasPath(disks, p)

ExternalPcs == {"smart_ext", "win_ext", "lookup_ext", "item_ext", "status_ext"}

\* main()'s finally loop is over: its condition was false, or next() raised
LoopEnded == phase = "exited" \/ (phase = "aborted" /\ main.pc = "pick")

(* C12: once the reactor has stopped no connection is accepted, no line is
   handled and no thread is created; the wait loop of main() is over only
   with running_commands empty and every thread ended; and it does get over
   unless some thread stays in an external call. *)
C12_Shutdown ==
    /\ [][phase \notin {"scanning", "running"} =>
            (conns' = conns /\ conn_id' = conn_id /\ clients' = clients
             /\ Len(units') = Len(units))]_vars
    /\ [](LoopEnded =>
            (running_commands = {} /\ \A u \in 1..Len(units) : units[u].pc = "done"))
    /\ (phase = "stopping")
          ~> (LoopEnded \/ \E u \in 1..Len(units) : units[u].pc \in ExternalPcs)

C12_Witness ==
    /\ phase = "exited"
    /\ main.unit \in 1..Len(units)
    /\ units[main.unit].pc = "done"
    /\ running_commands = {}

\* the thread that holds a lock
LockOwner(l) ==
    CASE l = "running_commands_lock" -> running_commands_lock
      [] l = "clients_lock" -> clients_lock
      [] OTHER -> disks_lock.owner

(* C15: a thread inside an external call (smartctl, wmic, an inventory call)
   holds none of the locks the reactor's handlers take, and a handler the
   reactor has entered returns, whether or not the external calls do. *)
C15_BlockedUnitHoldsNoReactorLock ==
    /\ [](\A u \in 1..Len(units) :
            units[u].pc \in ExternalPcs =>
                \A l \in ReactorLocks : LockOwner(l) # Unit(u))
    /\ (reactor.pc # "idle") ~> (reactor.pc = "idle")

C15_Witness ==
    \E u \in 1..Len(units) :
        /\ units[u].pc = "lookup_ext"
        /\ disks_lock.owner = Unit(u)
        /\ reactor.pc = "cm_cl"
        /\ clients_lock = Free

(* C16: a thread in which an exception was raised holds no lock, goes on to
   remove itself from running_commands, and the step in which the exception
   is raised changes neither main()'s phase, nor the reactor, nor clients,
   nor any connection, nor any other thread. *)
C16_FaultIsolated ==
    /\ [](\A u \in 1..Len(units) :
            units[u].faulted =>
               /\ units[u].pc \in {"fin", "done"}
               /\ \A l \in {"running_commands_lock", "clients_lock", "disks_lock"} :
                     LockOwner(l) # Unit(u)
               /\ units[u].pc = "fin" => u \in running_commands
               /\ units[u].pc = "done" => u \notin running_commands)
    /\ [][\A u \in 1..Len(units) :
            (~units[u].faulted /\ units'[u].faulted)
            => /\ phase' = phase
               /\ reactor' = reactor
               /\ clients' = clients
               /\ conns' = conns
               /\ calls' = calls
               /\ running_commands' = running_commands
               /\ \A v \in 1..Len(units) : v # u => units'[v] = units[v]]_vars

C16_Witness ==
    \E u \in 1..Len(units), v \in 1..Len(units) :
        /\ units[u].faulted
        /\ units[u].pc = "done"
        /\ u < v
        /\ units[v].sent = 1
        /\ units[v].pc = "done"
        /\ units[u].the_id \in clients
        /\ phase = "running"

(* C17: the sendLine calls of a connection are all made by the reactor, each
   for the call at the head of the callFromThread queue, which a thread put
   there; no step of a thread passes anything to a transport. *)
C17_SingleWriter ==
    /\ [](\A k \in 1..Len(conns) : \A i \in 1..Len(conns[k].out) :
            /\ conns[k].out[i].unit \in 1..Len(units)
            /\ units[conns[k].out[i].unit].sent >= 1
            /\ units[conns[k].out[i].unit].the_id = conns[k].id)
    /\ [][\A k \in 1..Len(conns) :
            conns'[k].out # conns[k].out
            => /\ reactor.pc = "idle" /\ reactor' = reactor
               /\ units' = units
               /\ calls # <<>> /\ calls' = Tail(calls)
               /\ Head(calls).conn = conns[k].id
               /\ Len(conns'[k].out) = Len(conns[k].out) + 1
               /\ SubSeq(conns'[k].out, 1, Len(conns[k].out)) = conns[k].out
               /\ conns'[k].out[Len(conns'[k].out)].text = Head(calls).text
               /\ conns'[k].out[Len(conns'[k].out)].unit = Head(calls).unit]_vars

C17_Witness ==
    \E k \in 1..Len(conns) :
        /\ Len(conns[k].out) = 2
        /\ conns[k].out[1].unit # conns[k].out[2].unit
        /\ conns[k].out[1].text.cmd = PONG
        /\ conns[k].out[2].text.cmd = GET_DISKS

\* all that connection k has received so far could not be decoded
OnlyUndecodable(k) == conns[k].first # "none" /\ conns[k].decoded = "none"

(* C18: the step that receives a line that is not valid UTF-8 creates no
   thread, queues and writes no response, and leaves the connection as open
   and as registered as it was, with its delimiter still undecided; a
   connection that has received nothing else has no thread and no output. *)
C18_UndecodableDropped ==
    /\ [](\A k \in 1..Len(conns) :
            OnlyUndecodable(k) =>
               /\ conns[k].out = <<>>
               /\ ~conns[k].delimiter_found
               /\ conns[k].status # "closing"
               /\ \A u \in 1..Len(units) : units[u].the_id # conns[k].id)
    /\ [][\A k \in 1..Len(conns) :
            (conns[k].first = "none" /\ conns'[k].first # "none"
               /\ conns'[k].decoded = "none")
            => /\ units' = units
               /\ running_commands' = running_commands
               /\ calls' = calls
               /\ clients' = clients
               /\ conns'[k].status = "open"
               /\ conns'[k].out = conns[k].out]_vars

C18_Witness ==
    \E k \in 1..Len(conns), u \in 1..Len(units) :
        /\ conns[k].first = "CRLF"
        /\ conns[k].decoded = "LF"
        /\ conns[k].status = "open"
        /\ conns[k].id \in clients
        /\ units[u].the_id = conns[k].id
        /\ units[u].cmd = PING
        /\ units[u].pc = "done"
        /\ PongWritten(u)

Main == <<"main">>
AllLocks == {"running_commands_lock", "clients_lock", "disks_lock"}
Threads == {Reactor, Main} \cup {Unit(u) : u \in 1..Len(units)}

\* the lock a thread is waiting for, if any
Awaited(t) ==
    IF t = Reactor
    THEN IF reactor.pc \in {"cm_cl", "cl_cl"} THEN {"clients_lock"} ELSE {}
    ELSE IF t = Main
    THEN IF phase = "stopping" /\ main.pc = "pick" THEN {"running_commands_lock"} ELSE {}
    ELSE CASE units[t[2]].pc \in {"send_lock", "manual_lock"} -> {"clients_lock"}
           [] units[t[2]].pc \in {"smart_lock", "gd_lock"} -> {"disks_lock"}
           [] units[t[2]].pc = "fin" -> {"running_commands_lock"}
           [] OTHER -> {}

Held(t) == {l \in AllLocks : LockOwner(l) = t}

\* clients_lock comes after the two other locks
LockRank(l) == IF l = "clients_lock" THEN 2 ELSE 1

(* C19: a thread that waits for a lock holds only locks that come earlier in
   the order running_commands_lock, disks_lock < clients_lock, so a thread
   that holds clients_lock waits for none; and a thread that waits for a lock
   gets it, unless some thread stays in an external call. *)
C19_LockOrder ==
    /\ [](\A t \in Threads : \A l \in Awaited(t) : \A h \in Held(t) :
            LockRank(h) < LockRank(l))
    /\ [](\A t \in Threads : "clients_lock" \in Held(t) => Awaited(t) = {})
    /\ \A u \in UnitIds :
          (IsUnit(u) /\ Awaited(Unit(u)) # {})
             ~> (IsUnit(u) /\ (\/ Awaited(Unit(u)) = {}
                               \/ \E v \in 1..Len(units) : units[v].pc \in ExternalPcs))

C19_Witness ==
    \E u \in 1..Len(units) :
        /\ units[u].pc = "manual_lock"
        /\ disks_lock.owner = Unit(u)
        /\ reactor.pc = "cl_cl"
        /\ running_commands_lock = Reactor

(* C20: nothing is passed to the transport of a connection whose
   connectionLost has run, also when the connection is lost after the thread
   found it in clients and before the reactor runs the queued call. *)
C20_NoWriteAfterClose ==
    \A k \in 1..Len(conns) : \A i \in 1..Len(conns[k].out) :
        conns[k].out[i].status # "closed"

(* C21: the connections' ids are below factory.conn_id and strictly increase
   in the order the connections were made, no step changes the id of a
   connection or of a thread or lowers factory.conn_id, and a response is
   queued for, and passed to the transport of, no other connection than the
   one whose line created the thread. *)
C21_ResponsesToSubmitter ==
    /\ [](\A k \in 1..Len(conns) :
            /\ conns[k].id < conn_id
            /\ \A j \in 1..Len(conns) : j < k => conns[j].id < conns[k].id)
    /\ [](clients \subseteq {conns[k].id : k \in 1..Len(conns)})
    /\ [](\A i \in 1..Len(calls) :
            calls[i].conn = units[calls[i].unit].the_id)
    /\ [](\A k \in 1..Len(conns) : \A i \in 1..Len(conns[k].out) :
            \A j \in 1..Len(conns) :
                conns[j].id = units[conns[k].out[i].unit].the_id => j = k)
    /\ [][/\ conn_id' >= conn_id
          /\ \A k \in 1..Len(conns) : conns'[k].id = conns[k].id
          /\ \A u \in 1..Len(units) : units'[u].the_id = units[u].the_id]_vars

C21_Witness ==
    \E u \in 1..Len(units) :
        /\ Len(conns) = 2
        /\ conns[1].status = "closed"
        /\ conns[1].id \notin clients
        /\ conns[2].status = "open"
        /\ conns[2].id \in clients
        /\ units[u].the_id = conns[1].id
        /\ units[u].pc = "done"
        /\ units[u].dropped = 1
        /\ conns[2].out = <<>>

====
